---- MODULE Spec2Model ----
(***************************************************************************)
(* A model of subscription_tracker.py: the keyword categorizer, the        *)
(* priority classifier, the cost normalizer, the insight generator, the    *)
(* CSV-backed record store and the create / delete interactions of main(). *)
(*                                                                         *)
(* Text that the program inspects character by character (service names    *)
(* given to suggest_category, cost cells and renewal dates parsed from the *)
(* CSV file) is a sequence of one-character strings.  Text that is only    *)
(* compared for equality (record names, categories, billing cycles) is a   *)
(* TLA+ string.                                                            *)
(***************************************************************************)
EXTENDS Integers, Sequences, FiniteSets, TLC

VARIABLES
  pc,          \* position of the pass being modelled
  name,        \* suggest_category: the service name typed into the form
  suggested,   \* suggest_category: the returned category
  cost,        \* normalize_cost: the cost argument
  cycle,       \* normalize_cost: the billing cycle argument
  monthly,     \* normalize_cost: the returned monthly cost
  records,     \* generate_insights: the rows of the frame it is given
  today,       \* generate_insights: datetime.now().date()
  insights,    \* generate_insights: the returned list
  store,       \* the file subscriptions_data.csv
  loaded,      \* load_data: the returned frame
  sess,        \* racing interactions: each session's position and frame
  lastWriter   \* racing interactions: the session that wrote the file last

catVars == <<name, suggested>>
normVars == <<cost, cycle, monthly>>
insVars == <<records, today, insights>>
vars == <<pc, name, suggested, cost, cycle, monthly, records, today, insights,
          store, loaded, sess, lastWriter>>

(***************************************************************************)
(* Bounds of the model.                                                    *)
(***************************************************************************)
MaxFrags == 2        \* a typed service name is at most this many fragments
MaxCostLen == 2      \* a cost given as text is at most this many characters
MaxRenewalRows == 3  \* rows of a frame whose renewal dates vary
MaxSpendRows == 3    \* rows of a frame whose categories and costs vary
MaxNameRows == 4     \* rows of a frame whose names vary
MaxMixedRows == 3    \* rows of a frame in which everything varies
MaxFileRows == 3     \* rows of a file written by hand
MaxStoreRows == 2    \* rows the store holds before a create is refused
MaxRaceRows == 2     \* rows the store holds when two interactions race

(***************************************************************************)
(* Generic helpers.                                                        *)
(***************************************************************************)
RECURSIVE SeqsUpTo(_, _)
SeqsUpTo(S, n) ==
  IF n = 0 THEN {<<>>}
  ELSE LET shorter == SeqsUpTo(S, n - 1)
       IN  shorter \cup {Append(s, x) : s \in {t \in shorter : Len(t) = n - 1}, x \in S}

\* the value standing for a field a variable set does not use
Idle == "idle"

RECURSIVE Flatten(_)
Flatten(ss) == IF ss = <<>> THEN <<>> ELSE Head(ss) \o Flatten(Tail(ss))

(***************************************************************************)
(* 1. suggest_category (source lines 20-35).                               *)
(***************************************************************************)
UpperToLower ==
  "A" :> "a" @@ "B" :> "b" @@ "C" :> "c" @@ "D" :> "d" @@ "E" :> "e" @@ "F" :> "f" @@
  "G" :> "g" @@ "H" :> "h" @@ "I" :> "i" @@ "J" :> "j" @@ "K" :> "k" @@ "L" :> "l" @@
  "M" :> "m" @@ "N" :> "n" @@ "O" :> "o" @@ "P" :> "p" @@ "Q" :> "q" @@ "R" :> "r" @@
  "S" :> "s" @@ "T" :> "t" @@ "U" :> "u" @@ "V" :> "v" @@ "W" :> "w" @@ "X" :> "x" @@
  "Y" :> "y" @@ "Z" :> "z"

\* str.lower() on one character
LowerChar(c) == IF c \in DOMAIN UpperToLower THEN UpperToLower[c] ELSE c

\* str(name).lower()
Lower(s) == [i \in 1..Len(s) |-> LowerChar(s[i])]

\* Python's `k in name` for two strings: k occurs as a contiguous substring
Contains(s, k) ==
  \E i \in 0..(Len(s) - Len(k)) : SubSeq(s, i + 1, i + Len(k)) = k

\* any(k in name for k in keys)
AnyKeyIn(keys, s) == \E j \in 1..Len(keys) : Contains(s, keys[j])

\* the dict literal of suggest_category, in insertion order
keywords_ShoppingFirst ==
  << [category |-> "Shopping", keys |-> <<
        <<"a","m","a","z","o","n">>,
        <<"w","a","l","m","a","r","t">>,
        <<"c","o","s","t","c","o">>,
        <<"p","r","i","m","e">>,
        <<"d","e","l","i","v","e","r","y">>,
        <<"u","b","e","r">> >>],
     [category |-> "Entertainment", keys |-> <<
        <<"n","e","t","f","l","i","x">>,
        <<"h","u","l","u">>,
        <<"d","i","s","n","e","y">>,
        <<"h","b","o">>,
        <<"p","r","i","m","e">>,
        <<"c","i","n","e","m","a">>,
        <<"y","o","u","t","u","b","e">>,
        <<"t","v">> >>],
     [category |-> "Music", keys |-> <<
        <<"s","p","o","t","i","f","y">>,
        <<"a","p","p","l","e"," ","m","u","s","i","c">>,
        <<"t","i","d","a","l">>,
        <<"d","e","e","z","e","r">>,
        <<"p","a","n","d","o","r","a">>,
        <<"m","u","s","i","c">>,
        <<"s","o","u","n","d">> >>],
     [category |-> "Productivity", keys |-> <<
        <<"n","o","t","i","o","n">>,
        <<"e","v","e","r","n","o","t","e">>,
        <<"t","o","d","o","i","s","t">>,
        <<"l","i","n","e","a","r">>,
        <<"j","i","r","a">>,
        <<"s","l","a","c","k">>,
        <<"z","o","o","m">>,
        <<"o","f","f","i","c","e">>,
        <<"m","i","c","r","o","s","o","f","t">> >>],
     [category |-> "Utilities", keys |-> <<
        <<"i","n","t","e","r","n","e","t">>,
        <<"e","l","e","c","t","r","i","c">>,
        <<"w","a","t","e","r">>,
        <<"g","a","s">>,
        <<"m","o","b","i","l","e">>,
        <<"p","h","o","n","e">>,
        <<"v","e","r","i","z","o","n">>,
        <<"a","t","&","t">>,
        <<"t","-","m","o","b","i","l","e">> >>],
     [category |-> "Software", keys |-> <<
        <<"a","d","o","b","e">>,
        <<"f","i","g","m","a">>,
        <<"g","i","t","h","u","b">>,
        <<"g","i","t","l","a","b">>,
        <<"a","w","s">>,
        <<"c","l","o","u","d">>,
        <<"h","o","s","t","i","n","g">>,
        <<"d","o","m","a","i","n">>,
        <<"c","h","a","t","g","p","t">>,
        <<"o","p","e","n","a","i">> >>],
     [category |-> "Fitness", keys |-> <<
        <<"g","y","m">>,
        <<"f","i","t","n","e","s","s">>,
        <<"y","o","g","a">>,
        <<"p","e","l","o","t","o","n">>,
        <<"s","t","r","a","v","a">>,
        <<"h","e","a","l","t","h">>,
        <<"m","y","f","i","t","n","e","s","s","p","a","l">> >>] >>

keywords ==
  << [category |-> "Entertainment", keys |-> <<
        <<"n","e","t","f","l","i","x">>,
        <<"h","u","l","u">>,
        <<"d","i","s","n","e","y">>,
        <<"h","b","o">>,
        <<"p","r","i","m","e">>,
        <<"c","i","n","e","m","a">>,
        <<"y","o","u","t","u","b","e">>,
        <<"t","v">> >>],
     [category |-> "Music", keys |-> <<
        <<"s","p","o","t","i","f","y">>,
        <<"a","p","p","l","e"," ","m","u","s","i","c">>,
        <<"t","i","d","a","l">>,
        <<"d","e","e","z","e","r">>,
        <<"p","a","n","d","o","r","a">>,
        <<"m","u","s","i","c">>,
        <<"s","o","u","n","d">> >>],
     [category |-> "Productivity", keys |-> <<
        <<"n","o","t","i","o","n">>,
        <<"e","v","e","r","n","o","t","e">>,
        <<"t","o","d","o","i","s","t">>,
        <<"l","i","n","e","a","r">>,
        <<"j","i","r","a">>,
        <<"s","l","a","c","k">>,
        <<"z","o","o","m">>,
        <<"o","f","f","i","c","e">>,
        <<"m","i","c","r","o","s","o","f","t">> >>],
     [category |-> "Utilities", keys |-> <<
        <<"i","n","t","e","r","n","e","t">>,
        <<"e","l","e","c","t","r","i","c">>,
        <<"w","a","t","e","r">>,
        <<"g","a","s">>,
        <<"m","o","b","i","l","e">>,
        <<"p","h","o","n","e">>,
        <<"v","e","r","i","z","o","n">>,
        <<"a","t","&","t">>,
        <<"t","-","m","o","b","i","l","e">> >>],
     [category |-> "Software", keys |-> <<
        <<"a","d","o","b","e">>,
        <<"f","i","g","m","a">>,
        <<"g","i","t","h","u","b">>,
        <<"g","i","t","l","a","b">>,
        <<"a","w","s">>,
        <<"c","l","o","u","d">>,
        <<"h","o","s","t","i","n","g">>,
        <<"d","o","m","a","i","n">>,
        <<"c","h","a","t","g","p","t">>,
        <<"o","p","e","n","a","i">> >>],
     [category |-> "Fitness", keys |-> <<
        <<"g","y","m">>,
        <<"f","i","t","n","e","s","s">>,
        <<"y","o","g","a">>,
        <<"p","e","l","o","t","o","n">>,
        <<"s","t","r","a","v","a">>,
        <<"h","e","a","l","t","h">>,
        <<"m","y","f","i","t","n","e","s","s","p","a","l">> >>],
     [category |-> "Shopping", keys |-> <<
        <<"a","m","a","z","o","n">>,
        <<"w","a","l","m","a","r","t">>,
        <<"c","o","s","t","c","o">>,
        <<"p","r","i","m","e">>,
        <<"d","e","l","i","v","e","r","y">>,
        <<"u","b","e","r">> >>] >>

\* the for loop over keywords.items(), from entry i on
RECURSIVE CategoryLoop(_, _, _)
CategoryLoop(table, i, lowered) ==
  IF i > Len(table) THEN "Uncategorized"
  ELSE IF AnyKeyIn(table[i].keys, lowered) THEN table[i].category
  ELSE CategoryLoop(table, i + 1, lowered)

suggest_category(n) == CategoryLoop(keywords, 1, Lower(n))

(***************************************************************************)
(* Service names typed into the form: up to MaxFrags fragments.            *)
(***************************************************************************)
Fragments ==
  { <<"A","m","a","z","o","n"," ">>,
    <<"P","r","i","m","e">>,
    <<"N","e","t","f","l","i","x">>,
    <<"T","V">>,
    <<"G","y","m">>,
    <<"A","p","p","l","e"," ">>,
    <<"M","u","s","i","c">>,
    <<"U","b","e","r">>,
    <<"P","e","g","a","s","u","s">>,
    <<"A","T","&","T">>,
    <<"x">> }

TypedNames == {Flatten(fs) : fs \in SeqsUpTo(Fragments, MaxFrags)}

AmazonPrime == <<"A","m","a","z","o","n"," ","P","r","i","m","e">>

CatInit ==
  /\ pc = "typed"
  /\ name \in TypedNames
  /\ suggested = "none"
  /\ cost = Idle /\ cycle = Idle /\ monthly = Idle
  /\ records = Idle /\ today = Idle /\ insights = Idle
  /\ store = Idle /\ loaded = Idle /\ sess = Idle /\ lastWriter = Idle

\* main() line 127: the form asks for a suggestion for the typed name
Suggest ==
  /\ pc = "typed"
  /\ suggested' = suggest_category(name)
  /\ pc' = "suggested"
  /\ UNCHANGED <<name, normVars, insVars, store, loaded, sess, lastWriter>>

CatNext == Suggest

SpecCat == CatInit /\ [][CatNext]_vars

(***************************************************************************)
(* C1.  suggest_category returns the first category, in the order          *)
(* Entertainment, Music, Productivity, Utilities, Software, Fitness,       *)
(* Shopping, one of whose keywords is a substring of the lower-cased name, *)
(* and Uncategorized when there is none; "Amazon Prime" is Entertainment.  *)
(***************************************************************************)
C1_Order ==
  <<"Entertainment", "Music", "Productivity", "Utilities", "Software",
    "Fitness", "Shopping">>

C1_KeysOf(c) == (CHOOSE e \in {keywords[i] : i \in 1..Len(keywords)} : e.category = c).keys

C1_Matching(n) == {i \in 1..Len(C1_Order) : AnyKeyIn(C1_KeysOf(C1_Order[i]), Lower(n))}

C1_FirstMatchWins ==
  pc = "suggested" =>
    /\ C1_Matching(name) = {} => suggested = "Uncategorized"
    /\ C1_Matching(name) # {} =>
         \E i \in C1_Matching(name) :
            /\ \A j \in C1_Matching(name) : i <= j
            /\ suggested = C1_Order[i]
    /\ name = AmazonPrime => suggested = "Entertainment"

C1_Witness ==
  /\ pc = "suggested"
  /\ name = AmazonPrime
  /\ C1_Matching(name) = {1, 7}
  /\ suggested = "Entertainment"

(***************************************************************************)
(* 2. get_priority (source lines 37-41).                                   *)
(***************************************************************************)
essentials == {"Utilities", "Productivity", "Software", "Fitness"}

get_priority(category) ==
  IF category \in essentials THEN "1st Priority" ELSE "2nd Priority"

(***************************************************************************)
(* 3. normalize_cost (source lines 43-50).                                 *)
(*                                                                         *)
(* A float is an exact fraction num/den in lowest terms with den > 0: the  *)
(* model abstracts IEEE rounding, not the division.  A cost argument is a  *)
(* number (k = "num"), a text (k = "str") or None (k = "none").            *)
(***************************************************************************)
Abs(x) == IF x < 0 THEN -x ELSE x

RECURSIVE GCD(_, _)
GCD(a, b) == IF b = 0 THEN a ELSE GCD(b, a % b)

\* the float n/d
Frac(n, d) ==
  LET g == GCD(Abs(n), d)
  IN  IF n = 0 THEN [num |-> 0, den |-> 1] ELSE [num |-> n \div g, den |-> d \div g]

Num(n)  == [k |-> "num",  n |-> n, s |-> <<>>]
Str(s)  == [k |-> "str",  n |-> 0, s |-> s]
None    == [k |-> "none", n |-> 0, s |-> <<>>]

DigitVal ==
  "0" :> 0 @@ "1" :> 1 @@ "2" :> 2 @@ "3" :> 3 @@ "4" :> 4 @@
  "5" :> 5 @@ "6" :> 6 @@ "7" :> 7 @@ "8" :> 8 @@ "9" :> 9

IsDigits(s) == Len(s) > 0 /\ \A i \in 1..Len(s) : s[i] \in DOMAIN DigitVal

RECURSIVE DigitsValue(_)
DigitsValue(s) ==
  IF s = <<>> THEN 0
  ELSE DigitsValue(SubSeq(s, 1, Len(s) - 1)) * 10 + DigitVal[s[Len(s)]]

\* Parsing a decimal integer text, as float(text) and pandas.to_numeric do
\* for texts made of digits, "-" and letters: an optional sign followed by
\* one or more digits is a number, anything else is not.
ParseNumber(s) ==
  IF IsDigits(s) THEN [ok |-> TRUE, v |-> DigitsValue(s)]
  ELSE IF Len(s) > 1 /\ s[1] = "-" /\ IsDigits(Tail(s))
       THEN [ok |-> TRUE, v |-> -DigitsValue(Tail(s))]
  ELSE [ok |-> FALSE, v |-> 0]

\* float(cost): ok = FALSE stands for the ValueError / TypeError it raises
ToFloat(c) ==
  IF c.k = "num" THEN [ok |-> TRUE, v |-> c.n]
  ELSE IF c.k = "str" THEN ParseNumber(c.s)
  ELSE [ok |-> FALSE, v |-> 0]

normalize_cost_SwappedDivisors(c, cyc) ==
  LET f == ToFloat(c)
  IN  IF ~f.ok THEN Frac(0, 1)
      ELSE IF cyc = "Yearly" THEN Frac(f.v, 3)
      ELSE IF cyc = "Quarterly" THEN Frac(f.v, 12)
      ELSE Frac(f.v, 1)

normalize_cost(c, cyc) ==
  LET f == ToFloat(c)
  IN  IF ~f.ok THEN Frac(0, 1)                         \* except: return 0.0
      ELSE IF cyc = "Yearly" THEN Frac(f.v, 12)
      ELSE IF cyc = "Quarterly" THEN Frac(f.v, 3)
      ELSE Frac(f.v, 1)

CostNumbers == {0, 30, 120}
CostAlphabet == {"1", "2", "-", "a"}
CostInputs ==
  {Num(n) : n \in CostNumbers} \cup {None}
    \cup {Str(s) : s \in SeqsUpTo(CostAlphabet, MaxCostLen)}

KnownCycles == {"Monthly", "Quarterly", "Yearly"}
CycleInputs == KnownCycles \cup {"Weekly", "monthly"}

NormInit ==
  /\ pc = "args"
  /\ cost \in CostInputs
  /\ cycle \in CycleInputs
  /\ monthly = Idle
  /\ name = Idle /\ suggested = Idle
  /\ records = Idle /\ today = Idle /\ insights = Idle
  /\ store = Idle /\ loaded = Idle /\ sess = Idle /\ lastWriter = Idle

\* one call of normalize_cost (main() line 164 makes one per row)
Normalize ==
  /\ pc = "args"
  /\ monthly' = normalize_cost(cost, cycle)
  /\ pc' = "normalized"
  /\ UNCHANGED <<cost, cycle, catVars, insVars, store, loaded, sess, lastWriter>>

NormNext == Normalize

SpecNorm == NormInit /\ [][NormNext]_vars

(***************************************************************************)
(* C6.  normalize_cost never throws and returns 0.0 whenever the cost      *)
(* cannot be interpreted as a number or the billing cycle is not one of    *)
(* Monthly, Quarterly, Yearly; for a numeric cost it returns the cost for  *)
(* Monthly, cost/3 for Quarterly and cost/12 for Yearly.                   *)
(***************************************************************************)
IsFloat(x) == x \in [num : Int, den : Nat \ {0}]

C6_Numeric(c) == c.k = "num" \/ (c.k = "str" /\ ParseNumber(c.s).ok)

C6_Value(c) == IF c.k = "num" THEN c.n ELSE ParseNumber(c.s).v

\* the float x is v / k
C6_IsQuotient(x, v, k) == x.num * k = v * x.den

\* C6 as stated: an unrecognised cycle yields 0.0
C6_AsStated ==
  pc = "normalized" =>
    /\ IsFloat(monthly)
    /\ (~C6_Numeric(cost) \/ cycle \notin KnownCycles) => monthly.num = 0
    /\ (C6_Numeric(cost) /\ cycle = "Monthly") => C6_IsQuotient(monthly, C6_Value(cost), 1)
    /\ (C6_Numeric(cost) /\ cycle = "Quarterly") => C6_IsQuotient(monthly, C6_Value(cost), 3)
    /\ (C6_Numeric(cost) /\ cycle = "Yearly") => C6_IsQuotient(monthly, C6_Value(cost), 12)

\* C6 amended: only a non-numeric cost yields 0.0; every cycle other than
\* Quarterly and Yearly, recognised or not, returns the numeric cost unchanged
C6_Amended ==
  pc = "normalized" =>
    /\ IsFloat(monthly)
    /\ ~C6_Numeric(cost) => monthly.num = 0
    /\ (C6_Numeric(cost) /\ cycle = "Quarterly") => C6_IsQuotient(monthly, C6_Value(cost), 3)
    /\ (C6_Numeric(cost) /\ cycle = "Yearly") => C6_IsQuotient(monthly, C6_Value(cost), 12)
    /\ (C6_Numeric(cost) /\ cycle \notin {"Quarterly", "Yearly"}) =>
         C6_IsQuotient(monthly, C6_Value(cost), 1)

C6_Witness ==
  /\ pc = "normalized"
  /\ cycle = "Weekly"
  /\ cost = Str(<<"1", "2">>)
  /\ monthly = [num |-> 12, den |-> 1]

(***************************************************************************)
(* 4. Dates: datetime.strptime(text, '%Y-%m-%d').date() and date           *)
(* subtraction (source lines 82-83).  A date is [y, m, d]; a date text is  *)
(* a sequence of characters.                                               *)
(***************************************************************************)
IsLeap(y) == (y % 4 = 0 /\ y % 100 # 0) \/ y % 400 = 0

DaysInMonth(y, m) ==
  IF m = 2 THEN (IF IsLeap(y) THEN 29 ELSE 28)
  ELSE IF m \in {4, 6, 9, 11} THEN 30 ELSE 31

RECURSIVE DaysBeforeMonth(_, _)
DaysBeforeMonth(y, m) ==
  IF m = 1 THEN 0 ELSE DaysBeforeMonth(y, m - 1) + DaysInMonth(y, m - 1)

\* date.toordinal(): days since 0001-01-01, which is day 1
Ordinal(dt) ==
  LET p == dt.y - 1
  IN  p * 365 + (p \div 4) - (p \div 100) + (p \div 400)
        + DaysBeforeMonth(dt.y, dt.m) + dt.d

\* the index of the first sep in s, or 0
FirstIndex(s, sep) ==
  IF \E i \in 1..Len(s) : s[i] = sep
  THEN CHOOSE i \in 1..Len(s) : s[i] = sep /\ \A j \in 1..(i - 1) : s[j] # sep
  ELSE 0

NoDate == [ok |-> FALSE, date |-> [y |-> 0, m |-> 0, d |-> 0]]

\* strptime with '%Y-%m-%d': four digits, "-", one or two digits making a
\* month 1..12, "-", one or two digits making a day 1..31, nothing after;
\* then date(y, m, d), which rejects year 0 and a day the month lacks.
\* ok = FALSE stands for the ValueError raised.
strptime(s) ==
  LET i == FirstIndex(s, "-")
      rest == SubSeq(s, i + 1, Len(s))
      j == FirstIndex(rest, "-")
      ys == SubSeq(s, 1, i - 1)
      ms == SubSeq(rest, 1, j - 1)
      ds == SubSeq(rest, j + 1, Len(rest))
  IN  IF i = 0 \/ j = 0 THEN NoDate
      ELSE IF ~(IsDigits(ys) /\ Len(ys) = 4) THEN NoDate
      ELSE IF ~(IsDigits(ms) /\ Len(ms) <= 2 /\ IsDigits(ds) /\ Len(ds) <= 2) THEN NoDate
      ELSE LET y == DigitsValue(ys)
               m == DigitsValue(ms)
               d == DigitsValue(ds)
           IN  IF y >= 1 /\ m \in 1..12 /\ d >= 1 /\ d <= DaysInMonth(y, m)
               THEN [ok |-> TRUE, date |-> [y |-> y, m |-> m, d |-> d]]
               ELSE NoDate

\* the decimal digits of n, zero-padded to width w
RECURSIVE Digits(_, _)
Digits(n, w) ==
  IF w = 0 THEN <<>>
  ELSE Append(Digits(n \div 10, w - 1),
              CHOOSE c \in DOMAIN DigitVal : DigitVal[c] = n % 10)

\* str(date): ISO format, as st.date_input's value is written by to_csv
isoformat(dt) == Digits(dt.y, 4) \o <<"-">> \o Digits(dt.m, 2) \o <<"-">> \o Digits(dt.d, 2)

(***************************************************************************)
(* 5. generate_insights (source lines 72-117).                             *)
(*                                                                         *)
(* A row maps the frame's column names to values: Cost a number (the       *)
(* column load_data made numeric), Renewal Date a text (the column         *)
(* load_data made str), the others strings or NaN.  An insight is its type *)
(* with the values its title and message interpolate.                      *)
(***************************************************************************)
\* pandas' missing value in a column of strings
NaN == "<NaN>"

Row(n, c, cyc, cat, r) ==
  ("Name" :> n) @@ ("Cost" :> c) @@ ("Billing Cycle" :> cyc) @@ ("Category" :> cat)
    @@ ("Renewal Date" :> r)

Critical(row, days)  == [type |-> "Critical", name |-> row.Name, days |-> days, cost |-> row.Cost]
Suggestion(row)      == [type |-> "Suggestion", name |-> row.Name, days |-> 0, cost |-> row.Cost]
Warning(n)           == [type |-> "Warning", name |-> n, days |-> 0, cost |-> 0]

\* A. the renewal loop from row i on.  raised = TRUE would be an exception
\* leaving the loop; the bare except of lines 91-92 turns every exception of
\* the try body into `continue`.
RECURSIVE RenewalAlerts_NoExcept(_, _, _)
RenewalAlerts_NoExcept(df, i, now) ==
  IF i > Len(df) THEN [raised |-> FALSE, out |-> <<>>]
  ELSE LET p == strptime(df[i]["Renewal Date"])
           days_until == Ordinal(p.date) - Ordinal(now)
           rest == RenewalAlerts_NoExcept(df, i + 1, now)
       IN  IF ~p.ok THEN [raised |-> TRUE, out |-> <<>>]
           ELSE IF 0 <= days_until /\ days_until <= 2
                THEN [raised |-> rest.raised, out |-> <<Critical(df[i], days_until)>> \o rest.out]
                ELSE rest

RECURSIVE RenewalAlerts_ThreeDays(_, _, _)
RenewalAlerts_ThreeDays(df, i, now) ==
  IF i > Len(df) THEN [raised |-> FALSE, out |-> <<>>]
  ELSE LET p == strptime(df[i]["Renewal Date"])
           days_until == Ordinal(p.date) - Ordinal(now)
           rest == RenewalAlerts_ThreeDays(df, i + 1, now)
       IN  IF ~p.ok THEN rest
           ELSE IF 0 <= days_until /\ days_until <= 3
                THEN [raised |-> rest.raised, out |-> <<Critical(df[i], days_until)>> \o rest.out]
                ELSE rest

RECURSIVE RenewalAlerts(_, _, _)
RenewalAlerts(df, i, now) ==
  IF i > Len(df) THEN [raised |-> FALSE, out |-> <<>>]
  ELSE LET p == strptime(df[i]["Renewal Date"])
           days_until == Ordinal(p.date) - Ordinal(now)
           rest == RenewalAlerts(df, i + 1, now)
       IN  IF ~p.ok THEN rest                                   \* except: continue
           ELSE IF 0 <= days_until /\ days_until <= 2
                THEN [raised |-> rest.raised, out |-> <<Critical(df[i], days_until)>> \o rest.out]
                ELSE rest

\* Series.idxmax() over the rows idx of df: the first label with the largest Cost
idxmax(df, idx) ==
  CHOOSE i \in idx :
    /\ \A j \in idx : df[j].Cost <= df[i].Cost
    /\ \A j \in idx : df[j].Cost = df[i].Cost => i <= j

\* B. the spending suggestion.  Nothing in the try body fails on a frame
\* whose Cost column is numeric, so the except branch is not taken.
SpendingStrategy_CheapestRow(df) ==
  LET lifestyle_subs == {i \in 1..Len(df) : get_priority(df[i].Category) = "2nd Priority"}
  IN  IF lifestyle_subs = {} THEN <<>>
      ELSE <<Suggestion(df[CHOOSE i \in lifestyle_subs :
                              \A j \in lifestyle_subs : df[i].Cost <= df[j].Cost])>>

SpendingStrategy(df) ==
  LET lifestyle_subs == {i \in 1..Len(df) : get_priority(df[i].Category) = "2nd Priority"}
  IN  IF lifestyle_subs = {} THEN <<>>
      ELSE <<Suggestion(df[idxmax(df, lifestyle_subs)])>>

\* Series.unique(): the distinct values in order of first appearance
RECURSIVE unique(_)
unique(s) ==
  IF s = <<>> THEN <<>>
  ELSE LET front == SubSeq(s, 1, Len(s) - 1)
           last == s[Len(s)]
       IN  IF \E i \in 1..Len(front) : front[i] = last
           THEN unique(front)
           ELSE Append(unique(front), last)

\* the Name column of df[df.duplicated(subset=['Name'], keep=False)]
DuplicatedNames(df) ==
  LET dup(i) == \E j \in 1..Len(df) : j # i /\ df[j].Name = df[i].Name
      Sel(r) == \E i \in 1..Len(df) : df[i] = r /\ dup(i)
      rows == SelectSeq(df, Sel)
  IN  [i \in 1..Len(rows) |-> rows[i].Name]

\* C. duplicate detection
DuplicateWarnings_PerRow(df) ==
  LET names == DuplicatedNames(df)
  IN  [i \in 1..Len(names) |-> Warning(names[i])]

DuplicateWarnings(df) ==
  LET names == unique(DuplicatedNames(df))
  IN  [i \in 1..Len(names) |-> Warning(names[i])]

generate_insights(df, now) ==
  IF df = <<>> THEN [raised |-> FALSE, out |-> <<>>]
  ELSE LET a == RenewalAlerts(df, 1, now)
       IN  IF a.raised THEN [raised |-> TRUE, out |-> <<>>]
           ELSE [raised |-> FALSE,
                 out |-> a.out \o SpendingStrategy(df) \o DuplicateWarnings(df)]

\* main() line 196: one call of generate_insights
Generate ==
  /\ pc = "frame"
  /\ LET r == generate_insights(records, today)
     IN  /\ insights' = r.out
         /\ pc' = IF r.raised THEN "raised" ELSE "returned"
  /\ UNCHANGED <<records, today, catVars, normVars, store, loaded, sess, lastWriter>>

InsNext == Generate

\* the insights of one type, in order
OfType(ins, t) == SelectSeq(ins, LAMBDA x : x.type = t)

(***************************************************************************)
(* Frames whose renewal dates vary.  The dates are two runs of consecutive *)
(* calendar days, one across a year's end and one across 29 February of a  *)
(* leap year, and the texts also hold a date without zero padding and      *)
(* texts that are no date.                                                 *)
(***************************************************************************)
Date(y, m, d) == [y |-> y, m |-> m, d |-> d]

YearEndDays ==
  <<Date(2023, 12, 30), Date(2023, 12, 31), Date(2024, 1, 1), Date(2024, 1, 2)>>

LeapDays ==
  <<Date(2024, 2, 27), Date(2024, 2, 28), Date(2024, 2, 29), Date(2024, 3, 1),
    Date(2024, 3, 2)>>

Range(f) == {f[i] : i \in DOMAIN f}

Unpadded == <<"2","0","2","4","-","3","-","1">>

BadDateTexts ==
  { <<"n","a","n">>,
    <<"2","0","2","3","-","0","2","-","2","9">>,
    <<"2","0","2","4","-","1","3","-","0","1">>,
    <<"0","1","-","0","3","-","2","0","2","4">> }

RenewalTexts ==
  {isoformat(dt) : dt \in Range(YearEndDays) \cup Range(LeapDays)}
    \cup {Unpadded} \cup BadDateTexts

TodayDates == {Date(2023, 12, 30), Date(2024, 2, 27), Date(2024, 2, 28)}

RenewalRows == {Row("Netflix", 15, "Monthly", "Entertainment", t) : t \in RenewalTexts}

InsIdle ==
  /\ name = Idle /\ suggested = Idle
  /\ cost = Idle /\ cycle = Idle /\ monthly = Idle
  /\ store = Idle /\ loaded = Idle /\ sess = Idle /\ lastWriter = Idle

RenewalInit ==
  /\ pc = "frame"
  /\ records \in SeqsUpTo(RenewalRows, MaxRenewalRows)
  /\ today \in TodayDates
  /\ insights = <<>>
  /\ InsIdle

SpecRenewal == RenewalInit /\ [][InsNext]_vars

(***************************************************************************)
(* C2.  The renewal detector emits exactly one Critical insight for each   *)
(* row whose renewal date parses and lies 0, 1 or 2 whole days after the   *)
(* as-of date, none for rows 3 or more days out, in the past or with an    *)
(* unparsable date, and the Critical insights keep the rows' order.        *)
(* The days between two dates are counted on the calendar runs above, not  *)
(* with Ordinal.                                                           *)
(***************************************************************************)
C2_IndexIn(run, dt) == CHOOSE i \in DOMAIN run : run[i] = dt

\* the calendar date a text denotes, by listing: the ISO text of a listed day
C2_Denotes(t, dt) == t = isoformat(dt) \/ (t = Unpadded /\ dt = Date(2024, 3, 1))

C2_Parses(t) == \E dt \in Range(YearEndDays) \cup Range(LeapDays) : C2_Denotes(t, dt)

C2_DateOf(t) == CHOOSE dt \in Range(YearEndDays) \cup Range(LeapDays) : C2_Denotes(t, dt)

\* whole days from a to b when both lie in the same run; the runs are more
\* than a month apart, so dates of different runs are never 0..2 days apart
C2_Due(t, now) ==
  /\ C2_Parses(t)
  /\ \E run \in {YearEndDays, LeapDays} :
       /\ now \in Range(run) /\ C2_DateOf(t) \in Range(run)
       /\ C2_IndexIn(run, C2_DateOf(t)) - C2_IndexIn(run, now) \in 0..2

C2_DaysTo(t, now) ==
  LET run == CHOOSE r \in {YearEndDays, LeapDays} : now \in Range(r)
  IN  C2_IndexIn(run, C2_DateOf(t)) - C2_IndexIn(run, now)

C2_Expected(df, now) ==
  LET due == SelectSeq(df, LAMBDA r : C2_Due(r["Renewal Date"], now))
  IN  [i \in 1..Len(due) |-> Critical(due[i], C2_DaysTo(due[i]["Renewal Date"], now))]

C2_RenewalAlerts ==
  pc # "frame" =>
    /\ pc = "returned"
    /\ OfType(insights, "Critical") = C2_Expected(records, today)

\* a frame with a date two days out (across 29 February), one three days
\* out, one in the past and one that does not parse, and two alerts in order
C2_Witness ==
  /\ pc = "returned"
  /\ today = Date(2024, 2, 28)
  /\ Len(records) = 3
  /\ records[1]["Renewal Date"] = isoformat(Date(2024, 3, 1))
  /\ records[2]["Renewal Date"] = <<"n","a","n">>
  /\ records[3]["Renewal Date"] = isoformat(Date(2024, 2, 28))
  /\ OfType(insights, "Critical") =
       <<Critical(records[1], 2), Critical(records[3], 0)>>

(***************************************************************************)
(* Frames whose categories and costs vary.                                 *)
(***************************************************************************)
FarDate == isoformat(Date(2024, 3, 2))

SpendRows ==
  {Row(n, c, "Monthly", cat, FarDate) :
     n \in {"Alpha", "Beta"}, c \in {5, 12, 40},
     cat \in {"Music", "Utilities", "Uncategorized"}}
    \cup {Row("Gamma", 40, "Monthly", cat, FarDate) : cat \in {"Fitness", NaN}}

SpendInit ==
  /\ pc = "frame"
  /\ records \in SeqsUpTo(SpendRows, MaxSpendRows)
  /\ today = Date(2024, 2, 27)
  /\ insights = <<>>
  /\ InsIdle

SpecSpend == SpendInit /\ [][InsNext]_vars

(***************************************************************************)
(* C3.  generate_insights emits at most one Suggestion: exactly one when   *)
(* some row has a category outside {Utilities, Productivity, Software,     *)
(* Fitness}, naming such a row whose cost is the largest among those rows, *)
(* and none when there is no such row.                                     *)
(***************************************************************************)
C3_Discretionary(r) == r.Category \notin {"Utilities", "Productivity", "Software", "Fitness"}

C3_OneSuggestion ==
  pc # "frame" =>
    LET sug == OfType(insights, "Suggestion")
        disc == {i \in 1..Len(records) : C3_Discretionary(records[i])}
    IN  /\ pc = "returned"
        /\ Len(sug) = IF disc = {} THEN 0 ELSE 1
        /\ disc # {} =>
             \E i \in disc :
                /\ sug[1].name = records[i].Name
                /\ sug[1].cost = records[i].Cost
                /\ \A j \in disc : records[j].Cost <= records[i].Cost

\* discretionary costs 5, 40, 12 beside a dearer essential row
C3_Witness ==
  /\ pc = "returned"
  /\ Len(records) = 3
  /\ records[1] = Row("Alpha", 5, "Monthly", "Music", FarDate)
  /\ records[2] = Row("Beta", 40, "Monthly", "Uncategorized", FarDate)
  /\ records[3] = Row("Alpha", 12, "Monthly", "Music", FarDate)
  /\ OfType(insights, "Suggestion") = <<Suggestion(records[2])>>

\* only essential rows: no Suggestion
C3_WitnessNone ==
  /\ pc = "returned"
  /\ Len(records) = 2
  /\ \A i \in 1..2 : ~C3_Discretionary(records[i])
  /\ OfType(insights, "Suggestion") = <<>>

(***************************************************************************)
(* Frames whose names vary: two spellings of one service, another service  *)
(* and a missing name.                                                     *)
(***************************************************************************)
NameRows ==
  {Row(n, 15, "Monthly", "Entertainment", FarDate) : n \in {"Netflix", "netflix", "Hulu", NaN}}

NamesInit ==
  /\ pc = "frame"
  /\ records \in SeqsUpTo(NameRows, MaxNameRows)
  /\ today = Date(2024, 2, 27)
  /\ insights = <<>>
  /\ InsIdle

SpecNames == NamesInit /\ [][InsNext]_vars

(***************************************************************************)
(* C4.  The duplicate detector emits exactly one Warning for each distinct *)
(* name held by two or more rows (exact, case-sensitive equality), none    *)
(* for a name held by one row, and orders the Warnings by the first row of *)
(* each duplicated name.  (Rows whose name is missing count as one name,   *)
(* as DataFrame.duplicated groups them.)                                   *)
(***************************************************************************)
C4_Count(df, n) == Cardinality({i \in 1..Len(df) : df[i].Name = n})

C4_First(df, n) == CHOOSE i \in 1..Len(df) : df[i].Name = n /\ \A j \in 1..(i - 1) : df[j].Name # n

C4_OneWarningPerName ==
  pc # "frame" =>
    LET w == OfType(insights, "Warning")
    IN  /\ pc = "returned"
        /\ \A i, j \in 1..Len(w) : i # j => w[i].name # w[j].name
        /\ {w[i].name : i \in 1..Len(w)} =
             {records[i].Name : i \in {k \in 1..Len(records) : C4_Count(records, records[k].Name) >= 2}}
        /\ \A i, j \in 1..Len(w) :
             i < j => C4_First(records, w[i].name) < C4_First(records, w[j].name)

\* two duplicated names: the Warnings follow their first rows; the spelling
\* "netflix" is another name
C4_Witness ==
  /\ pc = "returned"
  /\ Len(records) = 4
  /\ [i \in 1..4 |-> records[i].Name] = <<"Hulu", "Netflix", "Netflix", "Hulu">>
  /\ OfType(insights, "Warning") = <<Warning("Hulu"), Warning("Netflix")>>

\* names A, B, A, A: one Warning, for A
C4_WitnessTriple ==
  /\ pc = "returned"
  /\ [i \in 1..Len(records) |-> records[i].Name] = <<"Netflix", "netflix", "Netflix", "Netflix">>
  /\ OfType(insights, "Warning") = <<Warning("Netflix")>>

(***************************************************************************)
(* Frames in which everything varies: a date that is due, one that is not  *)
(* and two that do not parse, on rows of two services, one of them with    *)
(* two subscriptions, and on a row whose name and category are missing.    *)
(***************************************************************************)
DueDate == isoformat(Date(2024, 2, 28))

NotADate == <<"n","a","n">>

MixedRows ==
  {Row(f[1], f[2], "Monthly", f[3], r) :
     f \in {<<"Netflix", 40, "Entertainment">>, <<"Gym", 50, "Fitness">>,
            <<"Netflix", 5, "Shopping">>, <<NaN, 0, NaN>>},
     r \in {DueDate, FarDate, NotADate, <<"2","0","2","4","-","1","3","-","0","1">>}}

MixedInit ==
  /\ pc = "frame"
  /\ records \in SeqsUpTo(MixedRows, MaxMixedRows)
  /\ today = Date(2024, 2, 27)
  /\ insights = <<>>
  /\ InsIdle

SpecMixed == MixedInit /\ [][InsNext]_vars

(***************************************************************************)
(* C5.  generate_insights never raises; on an empty frame it returns the   *)
(* empty list; and a row whose renewal date cannot be parsed is left out   *)
(* of the renewal detector's output only: the Critical insights are those  *)
(* of the frame without that row, and the Suggestion and the Warnings are  *)
(* those of the frame with that row's date replaced by a good one.         *)
(***************************************************************************)
C5_Without(df, i) == SubSeq(df, 1, i - 1) \o SubSeq(df, i + 1, Len(df))

C5_Redated(df, i) == [df EXCEPT ![i]["Renewal Date"] = FarDate]

C5_NeverRaises ==
  pc # "frame" =>
    /\ pc = "returned"
    /\ records = <<>> => insights = <<>>
    /\ \A i \in 1..Len(records) :
         records[i]["Renewal Date"] \in BadDateTexts =>
           /\ OfType(insights, "Critical") =
                OfType(generate_insights(C5_Without(records, i), today).out, "Critical")
           /\ OfType(insights, "Suggestion") =
                OfType(generate_insights(C5_Redated(records, i), today).out, "Suggestion")
           /\ OfType(insights, "Warning") =
                OfType(generate_insights(C5_Redated(records, i), today).out, "Warning")

\* the row with the bad date gets no Critical insight, the rows after it get
\* theirs, and the bad row is still the Suggestion and part of the Warning
C5_Witness ==
  /\ pc = "returned"
  /\ records = <<Row("Netflix", 40, "Monthly", "Entertainment", NotADate),
                 Row("Gym", 50, "Monthly", "Fitness", DueDate),
                 Row("Netflix", 5, "Monthly", "Shopping", DueDate)>>
  /\ insights = <<Critical(records[2], 1), Critical(records[3], 1),
                  Suggestion(records[1]), Warning("Netflix")>>

(***************************************************************************)
(* 6. The store: subscriptions_data.csv, pandas.read_csv, load_data and    *)
(* DataFrame.to_csv (source lines 54-68).                                  *)
(*                                                                         *)
(* A file is its header line (the column names) and its data lines, each a *)
(* tuple of cells.  The cells of Cost and Renewal Date are texts; those of *)
(* Name, Billing Cycle, Category and Priority are strings; a Monthly Cost  *)
(* cell is the float written there.  A frame is its columns and its rows.  *)
(***************************************************************************)
FiveCols == <<"Name", "Cost", "Billing Cycle", "Category", "Renewal Date">>

NoFile == [exists |-> FALSE, header |-> <<>>, rows |-> <<>>]

EmptyFrame == [columns |-> FiveCols, rows |-> <<>>]

\* cells read_csv takes for a missing value (its default na_values)
NAValues == {"", "NA", "N/A", "NULL", "NaN", "nan", "null", "n/a", "#N/A", "<NA>"}

NATexts == {<<>>, <<"N","A">>, <<"n","a","n">>, <<"N","a","N">>}

\* a missing float
NaNFloat == [num |-> 0, den |-> 0]

TextCols == {"Cost", "Renewal Date"}

\* what read_csv gives for a cell that a short line does not have
MissingCell(col) ==
  IF col \in TextCols THEN <<>> ELSE IF col = "Monthly Cost" THEN NaNFloat ELSE ""

\* read_csv on one cell of column col; Cost and Renewal Date keep their text
\* for lines 60-61 of load_data
ReadCell(col, cell) ==
  IF col \in TextCols \/ col = "Monthly Cost" THEN cell
  ELSE IF cell \in NAValues THEN NaN ELSE cell

IndexOf(seq, x) == CHOOSE i \in 1..Len(seq) : seq[i] = x

\* pd.read_csv(DATA_FILE).  ok = FALSE stands for the exception it raises:
\* EmptyDataError on a file without a header line, ParserError on a line
\* with more fields than the header.
read_csv(file) ==
  IF file.header = <<>> \/ \E i \in 1..Len(file.rows) : Len(file.rows[i]) > Len(file.header)
  THEN [ok |-> FALSE, frame |-> EmptyFrame]
  ELSE [ok |-> TRUE,
        frame |-> [columns |-> file.header,
                   rows |-> [i \in 1..Len(file.rows) |->
                               [col \in Range(file.header) |->
                                  LET k == IndexOf(file.header, col)
                                  IN  IF k > Len(file.rows[i]) THEN MissingCell(col)
                                      ELSE ReadCell(col, file.rows[i][k])]]]]

\* pd.to_numeric(cell, errors='coerce') followed by fillna(0.0)
to_numeric_fillna(cell) ==
  LET p == ParseNumber(cell) IN IF p.ok THEN p.v ELSE 0

\* astype(str) on a Renewal Date cell: a missing value becomes the text nan
astype_str(cell) == IF cell \in NATexts THEN <<"n","a","n">> ELSE cell

load_data(file) ==
  IF ~file.exists THEN EmptyFrame
  ELSE LET r == read_csv(file)
       IN  IF ~r.ok \/ ~(TextCols \subseteq Range(r.frame.columns))
           THEN EmptyFrame                     \* the except branch, lines 63-65
           ELSE [columns |-> r.frame.columns,
                 rows |-> [i \in 1..Len(r.frame.rows) |->
                             [r.frame.rows[i] EXCEPT
                                !["Cost"] = to_numeric_fillna(@),
                                !["Renewal Date"] = astype_str(@)]]]

\* the decimal text of a number
RECURSIVE NatText(_)
NatText(n) ==
  IF n < 10 THEN Digits(n, 1) ELSE NatText(n \div 10) \o Digits(n % 10, 1)

NumberText(n) == IF n < 0 THEN <<"-">> \o NatText(-n) ELSE NatText(n)

\* to_csv on one value of column col: a missing value is written empty
WriteCell(col, v) ==
  IF col = "Cost" THEN NumberText(v)
  ELSE IF col \in TextCols \/ col = "Monthly Cost" THEN v
  ELSE IF v = NaN THEN "" ELSE v

\* the text df.to_csv(DATA_FILE, index=False) writes
to_csv(frame) ==
  [exists |-> TRUE,
   header |-> frame.columns,
   rows |-> [i \in 1..Len(frame.rows) |->
               [k \in 1..Len(frame.columns) |->
                  WriteCell(frame.columns[k], frame.rows[i][frame.columns[k]])]]]

\* save_data(df), done in one piece
save_data(frame) == to_csv(frame)

(***************************************************************************)
(* Files written by hand: every line has the five columns, and the Cost    *)
(* cell is a number, a negative number, empty, a missing-value token or    *)
(* other text.  Also no file, an empty file and a file without a Cost      *)
(* column.                                                                 *)
(***************************************************************************)
CostCells ==
  { <<"1","2">>, <<"0">>, <<"-","5">>, <<>>, <<"N","A">>, <<"a","b","c">>, <<"1","a">> }

HandLines == {<<"Netflix", c, "Monthly", "Entertainment", DueDate>> : c \in CostCells}

HandFiles ==
  {[exists |-> TRUE, header |-> FiveCols, rows |-> rs] : rs \in SeqsUpTo(HandLines, MaxFileRows)}
    \cup {NoFile,
          [exists |-> TRUE, header |-> <<>>, rows |-> <<>>],
          [exists |-> TRUE, header |-> <<"Name", "Renewal Date">>,
           rows |-> << <<"Netflix", DueDate>> >>]}

LoadInit ==
  /\ pc = "file"
  /\ store \in HandFiles
  /\ loaded = EmptyFrame
  /\ name = Idle /\ suggested = Idle
  /\ cost = Idle /\ cycle = Idle /\ monthly = Idle
  /\ records = Idle /\ today = Idle /\ insights = Idle
  /\ sess = Idle /\ lastWriter = Idle

\* one call of load_data
Load ==
  /\ pc = "file"
  /\ loaded' = load_data(store)
  /\ pc' = "loaded"
  /\ UNCHANGED <<store, catVars, normVars, insVars, sess, lastWriter>>

LoadNext == Load

SpecLoad == LoadInit /\ [][LoadNext]_vars

(***************************************************************************)
(* C8.  Every row load_data returns has a cost that is a non-negative      *)
(* number: a stored cost that is not a valid non-negative number           *)
(* (non-numeric text, missing, negative) is coerced to 0, a valid one is   *)
(* kept, and no line is lost because of its cost.                          *)
(***************************************************************************)
C8_ValidCost(cell) == IsDigits(cell)

C8_CostNonNegative ==
  (pc = "loaded" /\ store.header = FiveCols) =>
    /\ Len(loaded.rows) = Len(store.rows)
    /\ \A i \in 1..Len(loaded.rows) :
         /\ loaded.rows[i].Cost >= 0
         /\ C8_ValidCost(store.rows[i][2]) => loaded.rows[i].Cost = DigitsValue(store.rows[i][2])
         /\ ~C8_ValidCost(store.rows[i][2]) => loaded.rows[i].Cost = 0

(***************************************************************************)
(* 7. main(): the create form, the enrichment pass, the delete buttons and *)
(* the insights column (source lines 121-216).                             *)
(***************************************************************************)
\* what a frame holds for a column a row does not have
Missing(col) == IF col = "Monthly Cost" THEN NaNFloat ELSE NaN

\* the columns of a followed by those of b that a lacks
UnionCols(a, b) == a \o SelectSeq(b, LAMBDA c : c \notin Range(a))

WithCols(row, cols) ==
  [c \in Range(cols) |-> IF c \in DOMAIN row THEN row[c] ELSE Missing(c)]

\* pd.concat([df, new_row], ignore_index=True), lines 146-153
concat(df, new_row) ==
  LET cols == UnionCols(df.columns, FiveCols)
  IN  [columns |-> cols,
       rows |-> [i \in 1..Len(df.rows) |-> WithCols(df.rows[i], cols)]
                  \o <<WithCols(new_row, cols)>>]

\* lines 163-165: the derived columns, added to the loaded frame itself
enrich(df) ==
  IF df.rows = <<>> THEN df
  ELSE LET cols == UnionCols(df.columns, <<"Monthly Cost", "Priority">>)
       IN  [columns |-> cols,
            rows |-> [i \in 1..Len(df.rows) |->
                        [c \in Range(cols) |->
                           IF c = "Monthly Cost"
                           THEN normalize_cost(Num(df.rows[i].Cost), df.rows[i]["Billing Cycle"])
                           ELSE IF c = "Priority" THEN get_priority(df.rows[i].Category)
                           ELSE df.rows[i][c]]]]

\* df.drop(index=i), line 190: the labels are the positions load_data gave
drop(df, i) ==
  [columns |-> df.columns,
   rows |-> SubSeq(df.rows, 1, i - 1) \o SubSeq(df.rows, i + 1, Len(df.rows))]

\* the row the form submits, lines 146-152; to_csv writes the date as str(date)
new_row(n, c, cyc, cat, r) == Row(n, c, cyc, cat, isoformat(r))

\* the insights column of one pass over the file, lines 161-216
PassInsights(file, now) ==
  LET d == enrich(load_data(file))
  IN  IF d.rows = <<>> THEN <<>> ELSE generate_insights(d.rows, now).out

FormNames == {"", "Netflix", "NA"}
FormCosts == {15, 40}
FormCycles == {"Monthly", "Yearly"}
FormCategories == {"Entertainment", "Utilities"}
FormDates == {Date(2024, 2, 28)}
AppDates == {Date(2024, 2, 27), Date(2024, 3, 2)}

AppIdle ==
  /\ name = Idle /\ suggested = Idle
  /\ cost = Idle /\ cycle = Idle /\ monthly = Idle
  /\ records = Idle /\ loaded = Idle

Init ==
  /\ pc = "app"
  /\ store = NoFile
  /\ today \in AppDates
  /\ insights = <<>>
  /\ sess = Idle /\ lastWriter = Idle
  /\ AppIdle

AppUnchanged == UNCHANGED <<pc, catVars, normVars, records, loaded, sess, lastWriter>>

\* the form is submitted, lines 142-156: with a name the frame is loaded, the
\* row appended and the frame saved; then the script runs again from the top
Create(n, c, cyc, cat, r) ==
  /\ pc = "app"
  /\ Len(load_data(store).rows) < MaxStoreRows
  /\ store' = IF n # ""
              THEN save_data(concat(load_data(store), new_row(n, c, cyc, cat, r)))
              ELSE store
  /\ insights' = PassInsights(store', today)
  /\ UNCHANGED today
  /\ AppUnchanged

\* the delete button of row i is pressed, lines 161-192: the pass loads and
\* enriches the frame, drops the row and saves; then the script runs again
Delete(i) ==
  /\ pc = "app"
  /\ LET d == enrich(load_data(store))
     IN  /\ i \in 1..Len(d.rows)
         /\ store' = save_data(drop(d, i))
  /\ insights' = PassInsights(store', today)
  /\ UNCHANGED today
  /\ AppUnchanged

\* the page is shown with nothing pressed, on some day
Render ==
  /\ pc = "app"
  /\ today' \in AppDates
  /\ insights' = PassInsights(store, today')
  /\ UNCHANGED store
  /\ AppUnchanged

Next ==
  \/ \E n \in FormNames, c \in FormCosts, cyc \in FormCycles,
        cat \in FormCategories, r \in FormDates : Create(n, c, cyc, cat, r)
  \/ \E i \in 1..MaxStoreRows : Delete(i)
  \/ Render

Spec == Init /\ [][Next]_vars

(***************************************************************************)
(* C7.  After any sequence of create and delete interactions the store     *)
(* holds only the columns Name, Cost, Billing Cycle, Category and Renewal  *)
(* Date: the derived Monthly Cost and Priority are never written.          *)
(***************************************************************************)
C7_FiveColumnsOnly ==
  store.exists => store.header = FiveCols /\ \A i \in 1..Len(store.rows) : Len(store.rows[i]) = 5

(***************************************************************************)
(* C10.  Each mutation changes the stored collection by exactly one record *)
(* and leaves the other records and their order as they were: a create     *)
(* with a name appends the new record at the end, a create with an empty   *)
(* name leaves the store unchanged, and a delete removes exactly the       *)
(* record at the selected position.                                        *)
(***************************************************************************)
C10_Line(n, c, cyc, cat, r) == <<n, NumberText(c), cyc, cat, isoformat(r)>>

C10_Removed(rows, i) == SubSeq(rows, 1, i - 1) \o SubSeq(rows, i + 1, Len(rows))

C10_OneRecordChanges ==
  [][ /\ \A n \in FormNames, c \in FormCosts, cyc \in FormCycles,
            cat \in FormCategories, r \in FormDates :
           Create(n, c, cyc, cat, r) =>
             IF n = "" THEN store' = store
             ELSE store'.rows = Append(store.rows, C10_Line(n, c, cyc, cat, r))
      /\ \A i \in 1..MaxStoreRows :
           Delete(i) => store'.rows = C10_Removed(store.rows, i)
    ]_vars

(***************************************************************************)
(* 8. Two interactions racing on the file.  Each session of the page runs  *)
(* main() on its own thread; nothing in load_data or save_data locks the   *)
(* file.  A save is open(DATA_FILE, 'w'), which empties the file, and then *)
(* the write of the text from the start of the file, through the writer's  *)
(* own file position.  A line of the model stands for the bytes of one     *)
(* line: a write over a longer file leaves the lines beyond its own.       *)
(***************************************************************************)
Sessions == {1, 2}

RaceLines ==
  { <<"Netflix", <<"1","5">>, "Monthly", "Entertainment", DueDate>>,
    <<"Gym", <<"4","0">>, "Yearly", "Utilities", DueDate>> }

\* the stores the racing interactions start from: written by earlier creates
RaceFiles ==
  {NoFile} \cup
  {[exists |-> TRUE, header |-> FiveCols, rows |-> rs] : rs \in SeqsUpTo(RaceLines, MaxRaceRows)}

NoFrame == [columns |-> <<>>, rows |-> <<>>]

RaceInit ==
  /\ pc = "race"
  /\ store \in RaceFiles
  /\ sess = [s \in Sessions |-> [at |-> "idle", frame |-> NoFrame]]
  /\ lastWriter = 0
  /\ today = Idle /\ insights = Idle
  /\ AppIdle

RaceUnchanged == UNCHANGED <<pc, catVars, normVars, insVars, loaded>>

\* lines 144-153: session s submits the form; the frame is loaded and the row
\* appended in memory
LoadForCreate(s, n) ==
  /\ sess[s].at = "idle"
  /\ n # ""
  /\ sess' = [sess EXCEPT ![s] =
       [at |-> "loaded",
        frame |-> concat(load_data(store), new_row(n, 15, "Monthly", "Entertainment", Date(2024, 2, 28)))]]
  /\ UNCHANGED <<store, lastWriter>>
  /\ RaceUnchanged

\* lines 161-190: session s presses the delete button of row i; the frame is
\* loaded, enriched and the row dropped in memory
LoadForDelete(s, i) ==
  /\ sess[s].at = "idle"
  /\ LET d == enrich(load_data(store))
     IN  /\ i \in 1..Len(d.rows)
         /\ sess' = [sess EXCEPT ![s] = [at |-> "loaded", frame |-> drop(d, i)]]
  /\ UNCHANGED <<store, lastWriter>>
  /\ RaceUnchanged

\* save_data, first half: to_csv opens the file for writing, which empties it
OpenForWrite(s) ==
  /\ sess[s].at = "loaded"
  /\ store' = [exists |-> TRUE, header |-> <<>>, rows |-> <<>>]
  /\ sess' = [sess EXCEPT ![s].at = "open"]
  /\ UNCHANGED lastWriter
  /\ RaceUnchanged

\* the text written at the start of a file that holds `file`
WrittenOver(file, text) ==
  [exists |-> TRUE,
   header |-> text.header,
   rows |-> text.rows \o SubSeq(file.rows, Len(text.rows) + 1, Len(file.rows))]

\* save_data, second half: the text is written and the file closed
WriteAndClose(s) ==
  /\ sess[s].at = "open"
  /\ store' = WrittenOver(store, to_csv(sess[s].frame))
  /\ sess' = [sess EXCEPT ![s].at = "saved"]
  /\ lastWriter' = s
  /\ RaceUnchanged

RaceNext ==
  \E s \in Sessions :
    \/ \E n \in {"Hulu"} : LoadForCreate(s, n)
    \/ \E i \in 1..MaxRaceRows : LoadForDelete(s, i)
    \/ OpenForWrite(s)
    \/ WriteAndClose(s)

SpecRace == RaceInit /\ [][RaceNext]_vars

(***************************************************************************)
(* C9.  When two interactions, each a load, a create or delete in memory   *)
(* and a save, interleave in any order, the store after both have saved is *)
(* exactly the collection written by the one that saved last, never a      *)
(* mixture of the two.                                                     *)
(***************************************************************************)
C9_LastWriterWins ==
  (\A s \in Sessions : sess[s].at = "saved") => store = to_csv(sess[lastWriter].frame)

====
